---- MODULE Spec2Model ----
(***************************************************************************)
(* A model of libargparse: ArgumentParser::parse_args (src/argparse.cpp)   *)
(* and the token classifier is_argument (src/argparse_util.cpp).           *)
(*                                                                         *)
(* Strings are sequences of one-character strings, so that size() and      *)
(* operator[] of std::string are Len and indexing.  The C++ index i of     *)
(* the scan loop is kept 0-based: the token examined is arg_strs[i + 1].   *)
(***************************************************************************)
EXTENDS Integers, Sequences, FiniteSets, TLC

VARIABLES
    args,                 \* the registered Arguments, group-then-insertion order
    dest,                 \* the destination bound to each Argument
    pc,                   \* "idle", "scan" (inside parse_args) or "done"
    arg_strs,             \* parse_args: the token list of the current call
    i,                    \* parse_args: the index of the scan loop
    str_to_option_arg,    \* parse_args: option string -> Argument
    positional_args,      \* parse_args: the queue of unfilled positionals
    specified_arguments,  \* parse_args: the list to be returned
    result,               \* outcome of the call: none, ok, or the error thrown
    entry_dest,           \* the destinations as they were when the call began
    fresh,                \* the same call run on a parser that was never used
    str,                  \* is_argument: its parameter
    ret,                  \* is_argument: what it returned
    ndebug,               \* the build: TRUE when assert() is compiled out
    argc,                 \* parse_args(argc, argv): its first parameter
    argv,                 \* parse_args(argc, argv): its second parameter
    new_long_opt,         \* Argument::Argument: its parameter long_opt
    new_short_opt,        \* Argument::Argument: its parameter short_opt
    argument,             \* the Argument under configuration
    thrown,               \* what the last call on the Argument threw
    call                  \* the last call on the Argument

vars == <<args, dest, pc, arg_strs, i, str_to_option_arg, positional_args,
          specified_arguments, result, entry_dest, fresh, str, ret,
          ndebug, argc, argv, new_long_opt, new_short_opt, argument, thrown, call>>

argument_vars == <<new_long_opt, new_short_opt, argument, thrown, call>>

\* what a step of parse_args never touches
other_vars == <<str, ret, ndebug, argument_vars>>

parse_vars == <<args, dest, pc, arg_strs, i, str_to_option_arg, positional_args,
                specified_arguments, result, entry_dest, fresh>>

(***************************************************************************)
(* Bounds                                                                  *)
(***************************************************************************)
MaxTokens == 3      \* longest token list handed to parse_args
MaxLen == 4         \* longest string handed to is_argument

(***************************************************************************)
(* Strings                                                                 *)
(***************************************************************************)
Chars == {"-", "a", "b"}

RECURSIVE StringsOfLen(_)
StringsOfLen(n) ==
    IF n = 0 THEN {<< >>}
    ELSE {Append(s, c) : s \in StringsOfLen(n - 1), c \in Chars}

Strings == UNION {StringsOfLen(n) : n \in 0..MaxLen}

EmptyStr == << >>
Unassigned == <<"?">>                 \* a destination nothing was stored in
DefaultStr == <<"d">>
TrueStr == <<"t", "r", "u", "e">>
FalseStr == <<"f", "a", "l", "s", "e">>

\* the tokens the callers of parse_args use
TokX == <<"x">>
TokY == <<"y">>
TokLongA == <<"-", "-", "a">>
TokShortB == <<"-", "b">>
TokLongB == <<"-", "-", "b">>
TokDashAB == <<"-", "a", "b">>
TokLongC == <<"-", "-", "c">>
NameP1 == <<"p", "1">>
NameP2 == <<"p", "2">>

Tokens == {TokX, TokY, TokLongA, TokShortB, TokDashAB, TokLongC}

RECURSIVE TokenListsOfLen(_)
TokenListsOfLen(n) ==
    IF n = 0 THEN {<< >>}
    ELSE {Append(s, t) : s \in TokenListsOfLen(n - 1), t \in Tokens}

TokenLists == UNION {TokenListsOfLen(n) : n \in 0..MaxTokens}

(***************************************************************************)
(* argparse_util.cpp                                                       *)
(***************************************************************************)
\* the number of leading '-' of s; the read at s.end() yields the terminator
RECURSIVE LeadingDashes(_, _)
LeadingDashes(s, k) ==
    IF k < Len(s) /\ s[k + 1] = "-" THEN LeadingDashes(s, k + 1) ELSE k

split_leading_dashes(s) ==
    LET n == LeadingDashes(s, 0)
    IN <<SubSeq(s, 1, n), SubSeq(s, n + 1, Len(s))>>

\* a classifier that does not look at the third character
is_argument_no_third(s) ==
    IF Len(s) = 2 /\ s[1] = "-" /\ s[2] # "-" THEN TRUE
    ELSE IF Len(s) > 2 /\ s[1] = "-" /\ s[2] = "-" THEN TRUE
    ELSE FALSE

is_argument(s) ==
    IF Len(s) = 2 /\ s[1] = "-" /\ s[2] # "-" THEN TRUE
    ELSE IF Len(s) > 2 /\ s[1] = "-" /\ s[2] = "-" /\ s[3] # "-" THEN TRUE
    ELSE FALSE

(***************************************************************************)
(* Argument                                                                *)
(***************************************************************************)
STORE == "STORE"
STORE_TRUE == "STORE_TRUE"
STORE_FALSE == "STORE_FALSE"

\* the member initialisers of class Argument
ArgumentDefaults ==
    [action_ |-> STORE, nargs_ |-> "1", required_ |-> FALSE,
     default_value_ |-> EmptyStr, default_set_ |-> FALSE]

\* Argument::Argument: the error it throws, or "none"
ArgumentError(long_opt, short_opt) ==
    IF Len(long_opt) < 1 THEN "Argument must be at least one character long"
    ELSE LET dashes_name == split_leading_dashes(long_opt)
         IN IF Len(dashes_name[1]) = 1 /\ short_opt # EmptyStr
               THEN "Long option must be specified before short option"
            ELSE IF Len(dashes_name[1]) > 2
               THEN "More than two dashes in argument name"
            ELSE "none"

Argument(long_opt, short_opt) ==
    [long_opt_ |-> long_opt, short_opt_ |-> short_opt,
     action_ |-> ArgumentDefaults.action_, nargs_ |-> ArgumentDefaults.nargs_,
     required_ |-> ArgumentDefaults.required_,
     default_value_ |-> ArgumentDefaults.default_value_,
     default_set_ |-> ArgumentDefaults.default_set_]

\* std::array<char,5> valid_nargs = {'0', '1'}: the other three are '\0'
NUL == "NUL"
valid_nargs == {"0", "1", NUL}

\* Argument::nargs: the error it throws, or "none"
NargsError(arg, nargs_type) ==
    IF nargs_type \notin valid_nargs THEN "Invalid argument to nargs"
    ELSE IF arg.action_ = STORE_FALSE /\ nargs_type # "0"
        THEN "STORE_FALSE action requires nargs to be '0'"
    ELSE IF arg.action_ = STORE_TRUE /\ nargs_type # "0"
        THEN "STORE_TRUE action requires nargs to be '0'"
    ELSE IF arg.action_ = STORE /\ nargs_type # "1"
        THEN "STORE action requires nargs to be '1'"
    ELSE "none"

nargs(arg, nargs_type) ==
    IF NargsError(arg, nargs_type) = "none"
    THEN [arg EXCEPT !.nargs_ = nargs_type]
    ELSE arg

\* an action() that leaves the arity as it was
action_keeps_nargs(arg, action_type) == [arg EXCEPT !.action_ = action_type]

action(arg, action_type) ==
    LET a1 == [arg EXCEPT !.action_ = action_type]
    IN IF action_type \in {STORE_FALSE, STORE_TRUE} THEN nargs(a1, "0")
       ELSE IF action_type = STORE THEN nargs(a1, "1")
       ELSE a1

required(arg, is_required) == [arg EXCEPT !.required_ = is_required]

default_value(arg, value) ==
    [arg EXCEPT !.default_value_ = value, !.default_set_ = TRUE]

positional(arg) == arg.long_opt_[1] # "-"

\* Argument::required() const
IsRequired(arg) == IF positional(arg) THEN TRUE ELSE arg.required_

(***************************************************************************)
(* The registered configurations                                           *)
(***************************************************************************)
Option(long_opt, short_opt, action_type) ==
    action(Argument(long_opt, short_opt), action_type)

Positional(long_opt) == Argument(long_opt, EmptyStr)

WithDefault(arg) == default_value(arg, DefaultStr)

Required(arg) == required(arg, TRUE)

Configs ==
    { <<Positional(NameP1), WithDefault(Positional(NameP2))>>,
      <<WithDefault(Option(TokLongA, EmptyStr, STORE)),
        Required(WithDefault(Option(TokLongB, TokShortB, STORE_TRUE))),
        Positional(NameP1)>>,
      <<Required(Option(TokLongA, EmptyStr, STORE)),
        Option(TokLongC, EmptyStr, STORE_FALSE)>>,
      <<Option(TokLongA, EmptyStr, STORE),
        WithDefault(Option(TokDashAB, EmptyStr, STORE)),
        Positional(NameP1)>>,
      <<WithDefault(Option(TokLongA, EmptyStr, STORE)),
        Option(TokLongA, TokShortB, STORE_TRUE)>>,
      <<Option(TokLongB, TokShortB, STORE), Option(TokLongC, TokShortB, STORE_FALSE),
        Positional(NameP1)>> }

ArgIds == 1..3

(***************************************************************************)
(* ArgumentParser::parse_args                                              *)
(***************************************************************************)
NoName == << >>
Outcome(kind, name) == [kind |-> kind, name |-> name]
NoOutcome == Outcome("none", NoName)
Ok == Outcome("ok", NoName)

ErrorKinds == {"multiple_options", "missing_expected", "expected_at_least",
               "unexpected", "missing_positional"}

\* the destination setters of Argument
set_dest_to_default(d, as, a) == [d EXCEPT ![a] = as[a].default_value_]

set_dest_to_value_from_str(d, a, value) == [d EXCEPT ![a] = value]

\* a reset that forgets the Arguments after the first
ResetDefaultsFirstOnly(d, as, k) ==
    IF Len(as) >= 1 /\ as[1].default_set_ THEN set_dest_to_default(d, as, 1) ELSE d

\* a reset that spares the destinations something was stored in
ResetDefaultsIfUnassigned(d, as, k) ==
    [a \in DOMAIN d |->
        IF a <= Len(as) /\ as[a].default_set_ /\ d[a] = Unassigned
        THEN as[a].default_value_ ELSE d[a]]

\* lines 55-61: "Reset all the defaults"
RECURSIVE ResetDefaults(_, _, _)
ResetDefaults(d, as, k) ==
    IF k > Len(as) THEN d
    ELSE IF as[k].default_set_
         THEN ResetDefaults(set_dest_to_default(d, as, k), as, k + 1)
         ELSE ResetDefaults(d, as, k + 1)


EmptyMap == [s \in {} |-> 0]

\* an insert that overwrites instead of reporting the collision
InsertOptionOverwrite(acc, opt, a) ==
    IF opt = EmptyStr THEN acc
    ELSE [acc EXCEPT !.map = (opt :> a) @@ @]

\* std::map::insert of one option string, line 71-81
InsertOption(acc, opt, a) ==
    IF opt = EmptyStr THEN acc
    ELSE IF opt \in DOMAIN acc.map
         THEN [acc EXCEPT !.error = Outcome("multiple_options", opt)]
         ELSE [acc EXCEPT !.map = @ @@ (opt :> a)]

\* lines 64-85: the look-up of option strings and the positional queue
RECURSIVE BuildLookup(_, _, _)
BuildLookup(as, k, acc) ==
    IF k > Len(as) \/ acc.error # NoOutcome THEN acc
    ELSE IF positional(as[k])
         THEN BuildLookup(as, k + 1,
                          [acc EXCEPT !.positional_args = Append(@, k)])
         ELSE LET a1 == InsertOption(acc, as[k].long_opt_, k)
                  a2 == IF a1.error # NoOutcome THEN a1
                        ELSE InsertOption(a1, as[k].short_opt_, k)
              IN BuildLookup(as, k + 1, a2)

Lookup(as) ==
    BuildLookup(as, 1, [map |-> EmptyMap, positional_args |-> << >>,
                        error |-> NoOutcome])

SIZE_MAX == 2147483647

max_values_to_read(n) ==
    IF n = "1" THEN 1 ELSE IF n = "?" THEN 1 ELSE SIZE_MAX

min_values_to_read(n) ==
    IF n = "1" THEN 1 ELSE IF n = "?" THEN 0 ELSE IF n = "*" THEN 0 ELSE 1

\* a look-ahead that takes the next token whatever it looks like
ReadValuesNoShapeCheck(toks, idx, maxv, nargs_read, values) ==
    IF idx + 1 >= Len(toks)
    THEN [nargs_read |-> 0, values |-> << >>, missing |-> TRUE]
    ELSE [nargs_read |-> 1, values |-> <<toks[idx + 2]>>, missing |-> FALSE]

\* lines 126-142: the look-ahead that collects the values of an option
RECURSIVE ReadValues(_, _, _, _, _)
ReadValues(toks, idx, maxv, nargs_read, values) ==
    IF nargs_read >= maxv
    THEN [nargs_read |-> nargs_read, values |-> values, missing |-> FALSE]
    ELSE LET next_idx == idx + 1 + nargs_read
         IN IF next_idx >= Len(toks)
            THEN [nargs_read |-> nargs_read, values |-> values, missing |-> TRUE]
            ELSE IF is_argument(toks[next_idx + 1])
            THEN [nargs_read |-> nargs_read, values |-> values, missing |-> FALSE]
            ELSE ReadValues(toks, idx, maxv, nargs_read + 1,
                            Append(values, toks[next_idx + 1]))

\* an option branch that stores the value and leaves it to the scan as well
OptionBranchValueNotSkipped(st, toks, as, a) ==
    LET s1 == [st EXCEPT !.specified_arguments = Append(@, a)]
    IN IF as[a].action_ \in {STORE_TRUE, STORE_FALSE}
       THEN [s1 EXCEPT !.i = @ + 1]
       ELSE LET r == ReadValues(toks, st.i, 1, 0, << >>)
            IN IF r.missing
               THEN [s1 EXCEPT !.result = Outcome("missing_expected", toks[st.i + 1])]
               ELSE IF r.nargs_read < 1
               THEN [s1 EXCEPT !.result = Outcome("expected_at_least", toks[st.i + 1])]
               ELSE [s1 EXCEPT !.dest = set_dest_to_value_from_str(@, a, r.values[1]),
                               !.i = @ + 1]

\* an option branch that reads the value of a STORE option and drops it
OptionBranchValueDropped(st, toks, as, a) ==
    LET s1 == [st EXCEPT !.specified_arguments = Append(@, a)]
    IN IF as[a].action_ \in {STORE_TRUE, STORE_FALSE}
       THEN [s1 EXCEPT !.i = @ + 1]
       ELSE LET r == ReadValues(toks, st.i, 1, 0, << >>)
            IN IF r.missing
               THEN [s1 EXCEPT !.result = Outcome("missing_expected", toks[st.i + 1])]
               ELSE IF r.nargs_read < 1
               THEN [s1 EXCEPT !.result = Outcome("expected_at_least", toks[st.i + 1])]
               ELSE [s1 EXCEPT !.i = @ + r.nargs_read + 1]

\* lines 93-162: the token at st.i matched the option Argument a
OptionBranch(st, toks, as, a) ==
    LET s1 == [st EXCEPT !.specified_arguments = Append(@, a)]
    IN IF as[a].action_ = STORE_TRUE
       THEN [s1 EXCEPT !.i = @ + 1]             \* value = "true" is not stored
       ELSE IF as[a].action_ = STORE_FALSE
       THEN [s1 EXCEPT !.i = @ + 1]             \* value = "false" is not stored
       ELSE LET n == as[a].nargs_
                r == ReadValues(toks, st.i, max_values_to_read(n), 0, << >>)
            IN IF r.missing
               THEN [s1 EXCEPT !.result = Outcome("missing_expected", toks[st.i + 1])]
               ELSE IF r.nargs_read < min_values_to_read(n)
               THEN [s1 EXCEPT !.result = Outcome("expected_at_least", toks[st.i + 1])]
               ELSE IF n = "1"
               THEN [s1 EXCEPT !.dest = set_dest_to_value_from_str(@, a, r.values[1]),
                               !.i = @ + r.nargs_read + 1]
               ELSE IF ndebug
               THEN [s1 EXCEPT !.i = @ + r.nargs_read + 1]   \* nothing is stored
               ELSE [s1 EXCEPT !.result = Outcome("assert", toks[st.i + 1])]

\* a positional branch that skips the token nothing is left to take
PositionalBranchLenient(st, toks) ==
    IF st.positional_args = << >>
    THEN [st EXCEPT !.i = @ + 1]
    ELSE [st EXCEPT !.positional_args = Tail(@),
                    !.specified_arguments = Append(@, Head(st.positional_args)),
                    !.i = @ + 1]

\* a positional branch that refuses a token that looks like an option
PositionalBranchStrict(st, toks) ==
    IF st.positional_args = << >> \/ is_argument(toks[st.i + 1])
    THEN [st EXCEPT !.result = Outcome("unexpected", toks[st.i + 1])]
    ELSE [st EXCEPT !.positional_args = Tail(@),
                    !.specified_arguments = Append(@, Head(st.positional_args)),
                    !.i = @ + 1]

\* a positional branch that fills the positional without recording it
PositionalBranchUnrecorded(st, toks) ==
    IF st.positional_args = << >>
    THEN [st EXCEPT !.result = Outcome("unexpected", toks[st.i + 1])]
    ELSE [st EXCEPT !.positional_args = Tail(@), !.i = @ + 1]

\* lines 164-178: the token at st.i matched no option string
PositionalBranch(st, toks) ==
    IF st.positional_args = << >>
    THEN [st EXCEPT !.result = Outcome("unexpected", toks[st.i + 1])]
    ELSE LET arg == Head(st.positional_args)
         IN [st EXCEPT !.positional_args = Tail(@),
                       !.specified_arguments = Append(@, arg),
                       !.i = @ + 1]                \* value is not stored

\* lines 90-179: one iteration of the scan loop
ScanIteration(st, toks, map, as) ==
    IF toks[st.i + 1] \in DOMAIN map
    THEN OptionBranch(st, toks, as, map[toks[st.i + 1]])
    ELSE PositionalBranch(st, toks)

\* a completion check that also asks for the options marked required
MissingRequired(st, as) ==
    LET given == {st.specified_arguments[k] : k \in 1..Len(st.specified_arguments)}
        missing == {a \in 1..Len(as) : IsRequired(as[a]) /\ a \notin given}
    IN IF missing # {}
       THEN [st EXCEPT !.result =
                 Outcome("missing_positional",
                         as[CHOOSE a \in missing : \A b \in missing : a <= b].long_opt_)]
       ELSE [st EXCEPT !.result = Ok]

\* reports the last unfilled positional
MissingPositionalLast(st, as) ==
    IF st.positional_args # << >>
    THEN [st EXCEPT !.result =
              Outcome("missing_positional",
                      as[st.positional_args[Len(st.positional_args)]].long_opt_)]
    ELSE [st EXCEPT !.result = Ok]

\* lines 181-188: the completion check and the return
MissingPositionals(st, as) ==
    IF st.positional_args # << >>
    THEN [st EXCEPT !.result =
              Outcome("missing_positional", as[Head(st.positional_args)].long_opt_)]
    ELSE [st EXCEPT !.result = Ok]

Run == [i |-> i, dest |-> dest, positional_args |-> positional_args,
        specified_arguments |-> specified_arguments, result |-> result]

InitDest == [a \in ArgIds |-> Unassigned]

SetRun(st) ==
    /\ i' = st.i
    /\ dest' = st.dest
    /\ positional_args' = st.positional_args
    /\ specified_arguments' = st.specified_arguments
    /\ result' = st.result

\* lines 53-87: entry of parse_args(arg_strs), up to the scan loop
Begin(d, as) ==
    LET lk == Lookup(as)
    IN [i |-> 0, dest |-> ResetDefaults(d, as, 1),
        positional_args |-> lk.positional_args,
        specified_arguments |-> << >>, result |-> lk.error]

\* the whole of parse_args(arg_strs) as a function of the destinations at
\* entry, the configuration and the token list
RECURSIVE RunScan(_, _, _, _)
RunScan(st, toks, map, as) ==
    IF st.result # NoOutcome THEN st
    ELSE IF st.i < Len(toks) THEN RunScan(ScanIteration(st, toks, map, as), toks, map, as)
    ELSE MissingPositionals(st, as)

RunAll(d, as, toks) == RunScan(Begin(d, as), toks, Lookup(as).map, as)

Enter(toks) ==
    /\ pc = "idle"
    /\ arg_strs' = toks
    /\ entry_dest' = dest
    /\ str_to_option_arg' = Lookup(args).map
    /\ SetRun(Begin(dest, args))
    /\ fresh' = Begin(InitDest, args)
    /\ pc' = IF Lookup(args).error # NoOutcome THEN "done" ELSE "scan"
    /\ UNCHANGED <<args, other_vars>>

parse_args(toks) ==
    /\ Enter(toks)
    /\ UNCHANGED <<argc, argv>>

\* a copy loop that starts at the program name
arg_strs_from_zero(c, v) == [k \in 1..c |-> v[k]]

\* lines 45-48: arg_strs of parse_args(argc, argv); the loop runs from 1
RECURSIVE CopyArgv(_, _, _, _)
CopyArgv(c, v, k, acc) ==
    IF k < c THEN CopyArgv(c, v, k + 1, Append(acc, v[k + 1])) ELSE acc

arg_strs_of_argv(c, v) == CopyArgv(c, v, 1, << >>)

\* lines 44-51: parse_args(argc, argv)
parse_args_argv(c, v) ==
    /\ Enter(arg_strs_of_argv(c, v))
    /\ argc' = c
    /\ argv' = v

ScanStep ==
    /\ pc = "scan"
    /\ i < Len(arg_strs)
    /\ LET st == ScanIteration(Run, arg_strs, str_to_option_arg, args)
       IN /\ SetRun(st)
          /\ pc' = IF st.result # NoOutcome THEN "done" ELSE "scan"
    /\ fresh' = ScanIteration(fresh, arg_strs, str_to_option_arg, args)
    /\ UNCHANGED <<args, arg_strs, str_to_option_arg, entry_dest, argc, argv,
                   other_vars>>

Finish ==
    /\ pc = "scan"
    /\ i >= Len(arg_strs)
    /\ SetRun(MissingPositionals(Run, args))
    /\ fresh' = MissingPositionals(fresh, args)
    /\ pc' = "done"
    /\ UNCHANGED <<args, arg_strs, str_to_option_arg, entry_dest, argc, argv,
                   other_vars>>

\* the locals of parse_args when no call is running
NoCall ==
    /\ argc = 0
    /\ argv = << >>
    /\ arg_strs = << >>
    /\ i = 0
    /\ str_to_option_arg = EmptyMap
    /\ positional_args = << >>
    /\ specified_arguments = << >>
    /\ result = NoOutcome
    /\ entry_dest = InitDest
    /\ fresh = [i |-> 0, dest |-> InitDest, positional_args |-> << >>,
                specified_arguments |-> << >>, result |-> NoOutcome]

\* the caller has looked at the outcome; the locals of the call are gone
Return ==
    /\ pc = "done"
    /\ pc' = "idle"
    /\ arg_strs' = << >>
    /\ i' = 0
    /\ str_to_option_arg' = EmptyMap
    /\ positional_args' = << >>
    /\ specified_arguments' = << >>
    /\ result' = NoOutcome
    /\ entry_dest' = InitDest
    /\ fresh' = [i |-> 0, dest |-> InitDest, positional_args |-> << >>,
                 specified_arguments |-> << >>, result |-> NoOutcome]
    /\ argc' = 0
    /\ argv' = << >>
    /\ UNCHANGED <<args, dest, other_vars>>

NoArgument == [none |-> TRUE]

\* no Argument is under configuration
NoConstruction ==
    /\ new_long_opt = EmptyStr
    /\ new_short_opt = EmptyStr
    /\ argument = NoArgument
    /\ thrown = "none"
    /\ call = <<"none">>

Init ==
    /\ args \in Configs
    /\ dest = InitDest
    /\ pc = "idle"
    /\ NoCall
    /\ str = EmptyStr
    /\ ret = "none"
    /\ ndebug \in BOOLEAN
    /\ NoConstruction

ParseArgs == \E toks \in TokenLists : parse_args(toks)

Next == ParseArgs \/ ScanStep \/ Finish \/ Return

Spec == Init /\ [][Next]_vars

(***************************************************************************)
(* is_argument on its own                                                  *)
(***************************************************************************)
InitIsArgument ==
    /\ args = <<Positional(NameP1), Positional(NameP2)>>
    /\ dest = InitDest
    /\ pc = "idle"
    /\ NoCall
    /\ str \in Strings
    /\ ret = "none"
    /\ ndebug = FALSE
    /\ NoConstruction

IsArgument ==
    /\ ret = "none"
    /\ ret' = IF is_argument(str) THEN "true" ELSE "false"
    /\ UNCHANGED <<parse_vars, str, ndebug, argc, argv, argument_vars>>

NextIsArgument == IsArgument

SpecIsArgument == InitIsArgument /\ [][NextIsArgument]_vars

(***************************************************************************)
(* parse_args on inputs long enough to give an option twice                *)
(***************************************************************************)
RepeatTokens == {TokLongA, TokLongC, TokX, TokY}

RECURSIVE RepeatListsOfLen(_)
RepeatListsOfLen(n) ==
    IF n = 0 THEN {<< >>}
    ELSE {Append(s, t) : s \in RepeatListsOfLen(n - 1), t \in RepeatTokens}

RepeatLists == UNION {RepeatListsOfLen(n) : n \in 0..(MaxTokens + 1)}

RepeatConfigs ==
    { <<Option(TokLongA, EmptyStr, STORE), Option(TokLongC, EmptyStr, STORE_FALSE)>>,
      <<WithDefault(Option(TokLongA, EmptyStr, STORE)), Positional(NameP1)>> }

InitRepeat ==
    /\ args \in RepeatConfigs
    /\ dest = InitDest
    /\ pc = "idle"
    /\ NoCall
    /\ str = EmptyStr
    /\ ret = "none"
    /\ ndebug \in BOOLEAN
    /\ NoConstruction

ParseArgsRepeat == \E toks \in RepeatLists : parse_args(toks)

NextRepeat == ParseArgsRepeat \/ ScanStep \/ Finish \/ Return

SpecRepeat == InitRepeat /\ [][NextRepeat]_vars

(***************************************************************************)
(* parse_args(argc, argv)                                                  *)
(***************************************************************************)
ProgramNames == {TokLongA, TokX}

Argvs == {<< >>} \cup {<<p>> \o toks : p \in ProgramNames, toks \in TokenLists}

ArgvConfigs ==
    { <<WithDefault(Option(TokLongA, EmptyStr, STORE)),
        WithDefault(Option(TokLongB, TokShortB, STORE_TRUE)),
        Positional(NameP1)>>,
      <<Option(TokLongA, EmptyStr, STORE), Option(TokLongC, EmptyStr, STORE_FALSE)>> }

InitArgv ==
    /\ args \in ArgvConfigs
    /\ dest = InitDest
    /\ pc = "idle"
    /\ NoCall
    /\ str = EmptyStr
    /\ ret = "none"
    /\ ndebug \in BOOLEAN
    /\ NoConstruction

ParseArgv == \E v \in Argvs : parse_args_argv(Len(v), v)

NextArgv == ParseArgv \/ ScanStep \/ Finish \/ Return

SpecArgv == InitArgv /\ [][NextArgv]_vars

(***************************************************************************)
(* The look-ahead of the scan on the arities '?', '*' and '+'.  The scan   *)
(* reads these codes (lines 114-124); Argument::nargs does not hand them   *)
(* out yet, so the Arguments are given them directly.                      *)
(***************************************************************************)
MultiArities == {"?", "*", "+"}

WithArity(arg, n) == [arg EXCEPT !.nargs_ = n]

LookAheadConfigs ==
    { <<WithArity(Option(TokLongA, EmptyStr, STORE), n),
        Option(TokLongC, EmptyStr, STORE)>> : n \in MultiArities }

InitLookAhead ==
    /\ args \in LookAheadConfigs
    /\ dest = InitDest
    /\ pc = "idle"
    /\ NoCall
    /\ str = EmptyStr
    /\ ret = "none"
    /\ ndebug \in BOOLEAN
    /\ NoConstruction

NextLookAhead == ParseArgsRepeat \/ ScanStep \/ Finish \/ Return

SpecLookAhead == InitLookAhead /\ [][NextLookAhead]_vars

(***************************************************************************)
(* A call of parse_args runs to its end: nothing else runs in between      *)
(***************************************************************************)
FairRepeat == SpecRepeat /\ WF_vars(ScanStep) /\ WF_vars(Finish)

(***************************************************************************)
(* One Argument: its constructor and its mutators                          *)
(***************************************************************************)
ShortOpts == {EmptyStr, TokShortB}

NargsCodes == {"0", "1", "?", "*", "+", NUL}

Actions == {STORE, STORE_TRUE, STORE_FALSE}

AllDashes(s) == LeadingDashes(s, 0) = Len(s)

\* what the constructor can do on these parameters: split_leading_dashes
\* reads *str.end() when the name is nothing but dashes, which a checked
\* string iterator refuses and an unchecked one answers with the terminator
ConstructorOutcomes(long_opt, short_opt) ==
    IF Len(long_opt) >= 1 /\ AllDashes(long_opt)
    THEN {ArgumentError(long_opt, short_opt), "past-the-end read"}
    ELSE {ArgumentError(long_opt, short_opt)}

InitArgument ==
    /\ args = <<Positional(NameP1), Positional(NameP2)>>
    /\ dest = InitDest
    /\ pc = "idle"
    /\ NoCall
    /\ str = EmptyStr
    /\ ret = "none"
    /\ ndebug \in BOOLEAN
    /\ new_long_opt \in Strings
    /\ new_short_opt \in ShortOpts
    /\ argument = NoArgument
    /\ thrown = "none"
    /\ call = <<"none">>

parse_frame == <<parse_vars, str, ret, ndebug, argc, argv>>

\* Argument::Argument(long_opt, short_opt)
Construct ==
    /\ call = <<"none">>
    /\ \E e \in ConstructorOutcomes(new_long_opt, new_short_opt) :
          /\ thrown' = e
          /\ argument' = IF e = "none" THEN Argument(new_long_opt, new_short_opt)
                         ELSE NoArgument
    /\ call' = <<"Argument">>
    /\ UNCHANGED <<parse_frame, new_long_opt, new_short_opt>>

\* Argument::action(action_type)
CallAction ==
    /\ argument # NoArgument
    /\ thrown # "assert"
    /\ \E a \in Actions :
          /\ argument' = action(argument, a)
          /\ call' = <<"action", a>>
    /\ thrown' = "none"
    /\ UNCHANGED <<parse_frame, new_long_opt, new_short_opt>>

\* Argument::nargs(nargs_type)
CallNargs ==
    /\ argument # NoArgument
    /\ thrown # "assert"
    /\ \E n \in NargsCodes :
          /\ argument' = nargs(argument, n)
          /\ thrown' = NargsError(argument, n)
          /\ call' = <<"nargs", n>>
    /\ UNCHANGED <<parse_frame, new_long_opt, new_short_opt>>

\* Argument::positional(): assert(long_option().size() > 1)
CallPositional ==
    /\ argument # NoArgument
    /\ thrown # "assert"
    /\ thrown' = IF Len(argument.long_opt_) > 1 \/ ndebug THEN "none" ELSE "assert"
    /\ call' = <<"positional",
                 IF Len(argument.long_opt_) > 1 \/ ndebug
                 THEN (IF positional(argument) THEN "true" ELSE "false")
                 ELSE "abort">>
    /\ UNCHANGED <<parse_frame, new_long_opt, new_short_opt, argument>>

NextArgument == Construct \/ CallAction \/ CallNargs \/ CallPositional

SpecArgument == InitArgument /\ [][NextArgument]_vars

(***************************************************************************)
(* What the properties talk about, read off the configuration and the      *)
(* token list                                                              *)
(***************************************************************************)
Registered == 1..Len(args)

OptionStrings(a) == {args[a].long_opt_, args[a].short_opt_} \ {EmptyStr}

IsOption(a) == a \in Registered /\ ~positional(args[a])

AllOptionStrings == UNION {OptionStrings(a) : a \in {b \in Registered : IsOption(b)}}

\* the positional Arguments in declaration order
PositionalIds == SelectSeq([k \in Registered |-> k], LAMBDA k : positional(args[k]))

Specified == {specified_arguments[k] : k \in 1..Len(specified_arguments)}

\* two different Arguments claim the same option string
HasDuplicate ==
    \E a, b \in Registered :
        a # b /\ IsOption(a) /\ IsOption(b) /\ OptionStrings(a) \cap OptionStrings(b) # {}

AtToken == pc = "scan" /\ i < Len(arg_strs)

Current == arg_strs[i + 1]

\* the scan is at a token that matched an option with one of these actions
AtOption(actions) ==
    /\ AtToken
    /\ Current \in DOMAIN str_to_option_arg
    /\ args[str_to_option_arg[Current]].action_ \in actions

Succeeded == pc = "done" /\ result = Ok

(***************************************************************************)
(* C1. Positional ordering: when no token of the input matches an option   *)
(* string, after a successful parse_args the k-th token is held by the     *)
(* destination of the k-th registered positional Argument (A holds "x"     *)
(* and B holds "y" for the input ["x", "y"]).                              *)
(***************************************************************************)
C1_PositionalOrdering ==
    (Succeeded /\ \A j \in 1..Len(arg_strs) : arg_strs[j] \notin AllOptionStrings)
        => \A k \in 1..Len(arg_strs) :
              k <= Len(PositionalIds) => dest[PositionalIds[k]] = arg_strs[k]

(***************************************************************************)
(* C2. Round trip for STORE: after a successful parse_args, for every      *)
(* STORE option whose option token (of the shape "--foo" or "-f") occurs   *)
(* in the input followed by a value V that is not option-shaped, the       *)
(* destination of the option equals V (the V of its last occurrence) and   *)
(* the option is in the returned specified list.                           *)
(***************************************************************************)
OccursAt(a, j) ==
    /\ j \in 1..Len(arg_strs)
    /\ arg_strs[j] \in OptionStrings(a)
    /\ is_argument(arg_strs[j])

C2_StoreRoundTrip ==
    Succeeded =>
        \A a \in Registered :
            (IsOption(a) /\ args[a].action_ = STORE) =>
                \A j \in 1..(Len(arg_strs) - 1) :
                    ( /\ OccursAt(a, j)
                      /\ ~is_argument(arg_strs[j + 1])
                      /\ \A m \in (j + 1)..Len(arg_strs) : ~OccursAt(a, m) )
                    => (dest[a] = arg_strs[j + 1] /\ a \in Specified)

C2_Witness ==
    /\ Succeeded
    /\ \E a \in Registered :
          /\ IsOption(a) /\ args[a].action_ = STORE
          /\ \E j \in 1..(Len(arg_strs) - 1) :
                OccursAt(a, j) /\ dest[a] = arg_strs[j + 1] /\ entry_dest[a] # dest[a]
          /\ a \in Specified

(***************************************************************************)
(* C3. Missing required value fails: when the scan is at a token that      *)
(* matched a STORE option and that token is the last of the input or the   *)
(* token right after it is option-shaped, parse_args raises an error that  *)
(* names that option token and no destination is assigned.                 *)
(***************************************************************************)
C3_MissingValueFails ==
    [][ ( /\ AtOption({STORE})
          /\ (i + 1 = Len(arg_strs) \/ is_argument(arg_strs[i + 2])) )
        => ( /\ pc' = "done"
             /\ result'.kind \in {"missing_expected", "expected_at_least"}
             /\ result'.name = Current
             /\ dest' = dest ) ]_vars

C3_Witness ==
    /\ pc = "done"
    /\ result.kind = "expected_at_least"
    /\ i + 1 < Len(arg_strs)
    /\ result.name = Current
    /\ is_argument(arg_strs[i + 2])

\* the other case of C3: the option token is the last token
C3_WitnessLast ==
    /\ pc = "done"
    /\ result.kind = "missing_expected"
    /\ i + 1 = Len(arg_strs)
    /\ result.name = Current

(***************************************************************************)
(* C4. Boolean flags never consume a value: when the token at index i      *)
(* matches a STORE_TRUE or STORE_FALSE option, its destination is bound to *)
(* "true" or "false" respectively and the scan goes on at index i + 1.     *)
(***************************************************************************)
C4_FlagBindsLiteral ==
    [][ AtOption({STORE_TRUE, STORE_FALSE})
        => ( /\ dest'[str_to_option_arg[Current]] =
                   (IF args[str_to_option_arg[Current]].action_ = STORE_TRUE
                    THEN TrueStr ELSE FalseStr)
             /\ i' = i + 1
             /\ pc' = "scan" ) ]_vars

\* the part of C4 the code keeps: the next token is left to the scan
C4_FlagConsumesNothing ==
    [][ AtOption({STORE_TRUE, STORE_FALSE}) => (i' = i + 1 /\ pc' = "scan") ]_vars

(***************************************************************************)
(* C5. Idempotent reset: at the start of every parse_args call, before any *)
(* token is examined, the destination of every Argument that has a         *)
(* default configured equals that default.                                 *)
(***************************************************************************)
BeforeFirstToken ==
    \/ pc = "scan" /\ i = 0
    \/ pc = "done" /\ result.kind = "multiple_options"

C5_IdempotentReset ==
    BeforeFirstToken =>
        \A a \in Registered :
            args[a].default_set_ => dest[a] = args[a].default_value_

C5_Witness ==
    /\ pc = "scan" /\ i = 0
    /\ \E a \in Registered :
          /\ args[a].default_set_
          /\ entry_dest[a] \notin {Unassigned, args[a].default_value_}
          /\ dest[a] = args[a].default_value_

(***************************************************************************)
(* C6. State does not leak between invocations: the outcome of a call      *)
(* (the returned list, the error raised, the final value of every          *)
(* destination) is the one the same call has on a parser never used.       *)
(***************************************************************************)
SameReturn ==
    /\ result = fresh.result
    /\ result = Ok => specified_arguments = fresh.specified_arguments

C6_NoLeak ==
    pc = "done" => (SameReturn /\ dest = fresh.dest)

(***************************************************************************)
(* C6 as amended: the returned list and the error raised are those of the  *)
(* same call on a parser never used, and so is the final destination of    *)
(* every Argument that has a default; the destination of an Argument       *)
(* without a default that the call does not assign keeps what an earlier   *)
(* call left in it.                                                        *)
(***************************************************************************)
C6_NoLeakWithDefault ==
    pc = "done" =>
        /\ SameReturn
        /\ \A a \in Registered :
              \/ dest[a] = fresh.dest[a]
              \/ /\ ~args[a].default_set_
                 /\ dest[a] = entry_dest[a]
                 /\ fresh.dest[a] = InitDest[a]

C6_Witness ==
    /\ pc = "done"
    /\ \E a \in Registered :
          /\ args[a].default_set_
          /\ entry_dest[a] \notin {Unassigned, args[a].default_value_}
          /\ dest[a] = fresh.dest[a]
    /\ \E b \in Registered : dest[b] # fresh.dest[b]

(***************************************************************************)
(* C7. Duplicate option registration fails at parse time: when two         *)
(* different Arguments claim the same option string, every parse_args call *)
(* raises the configuration error, naming a string both claim, before any  *)
(* token is examined or consumed, the empty input included.                *)
(***************************************************************************)
C7_DuplicateFails ==
    (pc # "idle" /\ HasDuplicate) =>
        /\ pc = "done"
        /\ result.kind = "multiple_options"
        /\ \E a, b \in Registered :
              a # b /\ IsOption(a) /\ IsOption(b)
              /\ result.name \in OptionStrings(a) \cap OptionStrings(b)
        /\ i = 0
        /\ specified_arguments = << >>

C7_Witness ==
    /\ pc = "done"
    /\ HasDuplicate
    /\ arg_strs = << >>
    /\ result.kind = "multiple_options"

(***************************************************************************)
(* C8. Unrecognized token fails: when the scan reaches a token that        *)
(* matches no registered option string while the queue of unfilled         *)
(* positionals is empty, parse_args raises the "unexpected argument" error *)
(* naming that token.                                                      *)
(***************************************************************************)
C8_UnrecognizedFails ==
    [][ (AtToken /\ Current \notin AllOptionStrings /\ positional_args = << >>)
        => (pc' = "done" /\ result' = Outcome("unexpected", Current)) ]_vars

C8_Witness ==
    /\ pc = "done"
    /\ PositionalIds = << >>
    /\ Len(arg_strs) = 1
    /\ arg_strs[1] \notin AllOptionStrings
    /\ result = Outcome("unexpected", arg_strs[1])

(***************************************************************************)
(* C9. Missing positional fails: when the whole token list was scanned     *)
(* without error and a registered positional was not filled, parse_args    *)
(* raises the "missing required positional argument" error naming the      *)
(* first unfilled positional in declaration order.                         *)
(***************************************************************************)
Unfilled == {a \in Registered : positional(args[a]) /\ a \notin Specified}

FirstUnfilled == CHOOSE a \in Unfilled : \A b \in Unfilled : a <= b

C9_MissingPositionalFails ==
    [][ (pc = "scan" /\ i >= Len(arg_strs) /\ Unfilled # {})
        => ( /\ pc' = "done"
             /\ result' = Outcome("missing_positional", args[FirstUnfilled].long_opt_) )
      ]_vars

C9_Witness ==
    /\ pc = "done"
    /\ Len(PositionalIds) = 1
    /\ arg_strs = << >>
    /\ result = Outcome("missing_positional", args[PositionalIds[1]].long_opt_)

\* two positionals are missing and the first one is named
C9_WitnessFirstOfTwo ==
    /\ pc = "done"
    /\ Len(PositionalIds) = 2
    /\ arg_strs = << >>
    /\ result = Outcome("missing_positional", args[PositionalIds[1]].long_opt_)

(***************************************************************************)
(* C10. Option-token classification: is_argument(t) is true iff t has      *)
(* exactly 2 characters, t[0] is '-' and t[1] is not '-', or t has more    *)
(* than 2 characters, t[0] and t[1] are '-' and t[2] is not '-'; "-a" and  *)
(* "--ab" are option-shaped, "-", "--", "---a" and plain text are not.     *)
(***************************************************************************)
OptionShaped(t) ==
    \/ Len(t) = 2 /\ LeadingDashes(t, 0) = 1
    \/ Len(t) > 2 /\ LeadingDashes(t, 0) = 2

C10_Classification ==
    ret # "none" =>
        /\ (ret = "true") <=> OptionShaped(str)
        /\ str \in {<<"-", "a">>, <<"-", "-", "a", "b">>} => ret = "true"
        /\ str \in {<<"-">>, <<"-", "-">>, <<"-", "-", "-", "a">>,
                    <<"a", "b">>, <<"a">>, << >>} => ret = "false"

C10_Witness ==
    /\ ret = "false"
    /\ str = <<"-", "-", "-", "a">>

\* the long form is recognised
C10_WitnessLong ==
    /\ ret = "true"
    /\ str = <<"-", "-", "a", "b">>

(***************************************************************************)
(* C11. Malformed Argument construction is rejected at registration time:  *)
(* an Argument the constructor accepted has a long name of at least 2      *)
(* characters with at most two leading dashes, and no short option beside  *)
(* a single-dash long name.                                                *)
(***************************************************************************)
NameInvariant(long_opt, short_opt) ==
    /\ Len(long_opt) >= 2
    /\ LeadingDashes(long_opt, 0) <= 2
    /\ ~(LeadingDashes(long_opt, 0) = 1 /\ short_opt # EmptyStr)

C11_MalformedRejected ==
    argument # NoArgument =>
        NameInvariant(argument.long_opt_, argument.short_opt_)

\* what the constructor does reject
C11_RejectedByConstructor ==
    argument # NoArgument =>
        /\ Len(argument.long_opt_) >= 1
        /\ LeadingDashes(argument.long_opt_, 0) <= 2
        /\ ~(LeadingDashes(argument.long_opt_, 0) = 1 /\ argument.short_opt_ # EmptyStr)

\* the assertion of positional() fails on an accepted one-character name
C11_AssertReached ==
    /\ call = <<"positional", "abort">>
    /\ Len(argument.long_opt_) = 1

(***************************************************************************)
(* C12. Action/arity consistency: after any sequence of action(a) and      *)
(* nargs(n) calls the arity is '0' whenever the action is STORE_TRUE or    *)
(* STORE_FALSE and '1' whenever it is STORE; a nargs(n) call whose n is    *)
(* not an accepted arity code or does not fit the action throws and        *)
(* leaves action and arity unchanged.                                      *)
(***************************************************************************)
Consistent(arg) ==
    /\ arg.action_ \in {STORE_TRUE, STORE_FALSE} => arg.nargs_ = "0"
    /\ arg.action_ = STORE => arg.nargs_ = "1"

Fits(action_type, n) ==
    \/ action_type \in {STORE_TRUE, STORE_FALSE} /\ n = "0"
    \/ action_type = STORE /\ n = "1"

C12_ActionArityConsistent ==
    [][ /\ argument' # NoArgument => Consistent(argument')
        /\ (argument # NoArgument /\ call' # call /\ call'[1] = "nargs") =>
              /\ ~Fits(argument.action_, call'[2]) =>
                    (thrown' # "none" /\ argument' = argument)
              /\ Fits(argument.action_, call'[2]) => thrown' = "none" ]_vars

C12_Witness ==
    /\ argument # NoArgument
    /\ argument.action_ = STORE_TRUE
    /\ argument.nargs_ = "0"
    /\ call = <<"nargs", "1">>
    /\ thrown = "STORE_TRUE action requires nargs to be '0'"

(***************************************************************************)
(* C13. Specified list: a successful parse_args returns, in input order,   *)
(* one entry for each token that matched an option string and one for each *)
(* token taken as a positional value; Arguments not given do not appear;   *)
(* an option given several times appears once per occurrence and the       *)
(* destination of an option that takes a value ends with the value of its  *)
(* last occurrence.                                                        *)
(***************************************************************************)
Owner(t) == CHOOSE a \in Registered : IsOption(a) /\ t \in OptionStrings(a)

\* the entries the token list asks for, read off the tokens from index j on:
\* an option token gives its owner (and a STORE option takes the token after
\* it as its value), any other token gives the next positional
RECURSIVE Entries(_, _, _)
Entries(j, queue, acc) ==
    IF j > Len(arg_strs) \/ (arg_strs[j] \notin AllOptionStrings /\ queue = << >>)
    THEN acc
    ELSE IF arg_strs[j] \in AllOptionStrings
    THEN Entries(j + (IF args[Owner(arg_strs[j])].action_ = STORE THEN 2 ELSE 1),
                 queue, Append(acc, [arg |-> Owner(arg_strs[j]), at |-> j]))
    ELSE Entries(j + 1, Tail(queue), Append(acc, [arg |-> Head(queue), at |-> j]))

ExpectedEntries == Entries(1, PositionalIds, << >>)

Occurrences(a) == {k \in 1..Len(ExpectedEntries) : ExpectedEntries[k].arg = a}

LastOccurrence(a) ==
    CHOOSE k \in Occurrences(a) : \A m \in Occurrences(a) : m <= k

C13_SpecifiedList ==
    Succeeded =>
        /\ specified_arguments =
              [k \in 1..Len(ExpectedEntries) |-> ExpectedEntries[k].arg]
        /\ \A a \in Registered :
              (IsOption(a) /\ \A j \in 1..Len(arg_strs) : arg_strs[j] \notin OptionStrings(a))
                  => a \notin Specified
        /\ \A a \in Registered :
              (IsOption(a) /\ args[a].action_ = STORE /\ Occurrences(a) # {})
                  => dest[a] = arg_strs[ExpectedEntries[LastOccurrence(a)].at + 1]

C13_Witness ==
    /\ Succeeded
    /\ \E a \in Registered :
          /\ IsOption(a) /\ args[a].action_ = STORE
          /\ Cardinality({k \in 1..Len(specified_arguments) :
                              specified_arguments[k] = a}) = 2
          /\ arg_strs[2] # arg_strs[4]
          /\ dest[a] = arg_strs[4]
    /\ \E b \in Registered : b \notin Specified

\* a positional entry between option entries, in input order
C13_WitnessOrder ==
    /\ Succeeded
    /\ Len(specified_arguments) = 2
    /\ IsOption(specified_arguments[2])
    /\ ~IsOption(specified_arguments[1])

(***************************************************************************)
(* C14. parse_args(argc, argv) is the token-list overload applied to       *)
(* argv[1..argc-1]: the program name at index 0 is never a token, the      *)
(* other elements are passed unchanged and in order, and the result, the   *)
(* error and the destinations are those of the token-list overload.        *)
(***************************************************************************)
ArgvTail == [k \in 1..(argc - 1) |-> argv[k + 1]]

C14_ArgvEquivalent ==
    /\ pc # "idle" => arg_strs = ArgvTail
    /\ pc = "done" =>
          LET list == RunAll(entry_dest, args, ArgvTail)
          IN /\ result = list.result
             /\ result = Ok => specified_arguments = list.specified_arguments
             /\ dest = list.dest

C14_Witness ==
    /\ Succeeded
    /\ argc >= 2
    /\ argv[1] \in AllOptionStrings
    /\ Owner(argv[1]) \notin Specified
    /\ Len(specified_arguments) = argc - 1

(***************************************************************************)
(* C15. Multi-value look-ahead: for an option of arity '?', '*' or '+' the *)
(* scan collects the consecutive tokens after the option that are not      *)
(* option-shaped, up to the maximum of the arity, stopping without error   *)
(* at the end of the input or at the first option-shaped token; it fails   *)
(* with "expected at least N values" exactly when fewer than the minimum   *)
(* were collected, and otherwise goes on right after the tokens collected. *)
(***************************************************************************)
ArityMin(n) == IF n = "+" THEN 1 ELSE 0

ArityMax(n) == IF n = "?" THEN 1 ELSE Len(arg_strs)

\* how many tokens after the option at index i the claim has collected
RECURSIVE Collected(_, _)
Collected(k, maxv) ==
    IF /\ k < maxv
       /\ i + 1 + k < Len(arg_strs)
       /\ ~is_argument(arg_strs[i + 2 + k])
    THEN Collected(k + 1, maxv)
    ELSE k

CurrentArity == args[str_to_option_arg[Current]].nargs_

C15_EndOfInput ==
    /\ pc = "done"
    /\ result.kind = "missing_expected"
    /\ i < Len(arg_strs)
    /\ Current \in DOMAIN str_to_option_arg
    /\ CurrentArity = "*"

(***************************************************************************)
(* C16. A token that matches no registered option string is taken as a     *)
(* positional value while an unfilled positional remains, option-shaped or *)
(* not: it fills the first unfilled positional and raises no error; the    *)
(* "unexpected argument" error is raised only when none remains.           *)
(***************************************************************************)
C16_UnmatchedIsPositional ==
    [][ (AtToken /\ Current \notin AllOptionStrings) =>
            IF Unfilled # {}
            THEN /\ pc' = "scan"
                 /\ result' = NoOutcome
                 /\ specified_arguments' = Append(specified_arguments, FirstUnfilled)
                 /\ i' = i + 1
            ELSE result'.kind = "unexpected" ]_vars

C16_Witness ==
    /\ Succeeded
    /\ Len(arg_strs) = 1
    /\ OptionShaped(arg_strs[1])
    /\ arg_strs[1] \notin AllOptionStrings
    /\ Len(specified_arguments) = 1
    /\ positional(args[specified_arguments[1]])

(***************************************************************************)
(* C17. The scan is a bounded, finite pass: every call of parse_args       *)
(* ends; every iteration that does not throw moves the index forward,      *)
(* never past the end; on success every token has been consumed exactly    *)
(* once, as an option name, as the value of the option right before it or  *)
(* as a positional value.                                                  *)
(***************************************************************************)
EntryAt(k) == ExpectedEntries[k].at

NameIndices ==
    {EntryAt(k) : k \in {m \in 1..Len(ExpectedEntries) : IsOption(ExpectedEntries[m].arg)}}

ValueIndices ==
    {EntryAt(k) + 1 : k \in {m \in 1..Len(ExpectedEntries) :
                               /\ IsOption(ExpectedEntries[m].arg)
                               /\ args[ExpectedEntries[m].arg].action_ = STORE}}

PositionalIndices ==
    {EntryAt(k) : k \in {m \in 1..Len(ExpectedEntries) : ~IsOption(ExpectedEntries[m].arg)}}

ConsumedOnce ==
    /\ i = Len(arg_strs)
    /\ specified_arguments = [k \in 1..Len(ExpectedEntries) |-> ExpectedEntries[k].arg]
    /\ NameIndices \cup ValueIndices \cup PositionalIndices = 1..Len(arg_strs)
    /\ NameIndices \cap ValueIndices = {}
    /\ NameIndices \cap PositionalIndices = {}
    /\ ValueIndices \cap PositionalIndices = {}
    /\ Cardinality(NameIndices) + Cardinality(PositionalIndices) = Len(specified_arguments)

C17_BoundedScan ==
    /\ [][ AtToken => \/ pc' = "scan" /\ i' > i /\ i' <= Len(arg_strs)
                      \/ pc' = "done" /\ result'.kind \in ErrorKinds ]_vars
    /\ [](pc = "scan" => <>(pc = "done"))
    /\ [](Succeeded => ConsumedOnce)

C17_Witness ==
    /\ Succeeded
    /\ Len(arg_strs) >= 3
    /\ NameIndices # {}
    /\ ValueIndices # {}
    /\ PositionalIndices # {}

(***************************************************************************)
(* C18. A STORE option never consumes as its value a token that exactly    *)
(* matches a registered option string, whatever the shape of that string   *)
(* ("-foo" included).                                                      *)
(***************************************************************************)
NextToken == arg_strs[i + 2]

C18_NeverConsumesRegistered ==
    [][ (AtOption({STORE}) /\ i + 1 < Len(arg_strs) /\ NextToken \in AllOptionStrings)
        => ~(pc' = "scan" /\ i' = i + 2) ]_vars

(***************************************************************************)
(* What the look-ahead does instead: a STORE option refuses a token that   *)
(* is option-shaped ("-x" or "--xx..."), registered or not; any other      *)
(* token is consumed as the value, also when it equals a registered option *)
(* string of another shape (a single-dash long option such as "-foo").     *)
(***************************************************************************)
C18_NeverConsumesOptionShaped ==
    [][ (AtOption({STORE}) /\ i + 1 < Len(arg_strs)) =>
            IF OptionShaped(NextToken)
            THEN pc' = "done" /\ result'.kind = "expected_at_least" /\ dest' = dest
            ELSE /\ pc' = "scan"
                 /\ i' = i + 2
                 /\ dest'[str_to_option_arg[Current]] = NextToken ]_vars

C18_RegisteredRefused ==
    /\ pc = "done"
    /\ result.kind = "expected_at_least"
    /\ i + 1 < Len(arg_strs)
    /\ NextToken \in AllOptionStrings
    /\ OptionShaped(NextToken)

\* a registered single-dash long option was taken as a value
C18_RegisteredConsumed ==
    /\ Succeeded
    /\ \E a \in Registered :
          /\ IsOption(a)
          /\ dest[a] \in AllOptionStrings
          /\ dest[a] # entry_dest[a]

(***************************************************************************)
(* C19. The required flag of an option has no effect on parsing: the       *)
(* outcome of parse_args (result, returned list, destinations) is the one  *)
(* it has under any other marking of the options as required; it succeeds  *)
(* when an option marked required is absent, and a "missing required"      *)
(* error always names an unfilled positional.                              *)
(***************************************************************************)
Options == {a \in Registered : IsOption(a)}

MarkedRequired(S) ==
    [a \in Registered |-> IF IsOption(a) THEN required(args[a], a \in S) ELSE args[a]]

C19_RequiredIgnored ==
    pc = "done" =>
        /\ \A S \in SUBSET Options :
              LET other == RunAll(entry_dest, MarkedRequired(S), arg_strs)
              IN /\ result = other.result
                 /\ result = Ok => specified_arguments = other.specified_arguments
                 /\ dest = other.dest
        /\ result.kind = "missing_positional" =>
              \E a \in Unfilled : result.name = args[a].long_opt_

C19_Witness ==
    /\ Succeeded
    /\ \E a \in Options : IsRequired(args[a]) /\ a \notin Specified

====
